---- MODULE Spec2Model ----
(***************************************************************************)
(* Model of the audio manager (session orchestrator) of xn_esp32_audio:    *)
(* components/xn_audio_manager/src/audio_manager.c, with the configuration *)
(* builder of main/audio_config_app.c.                                     *)
(*                                                                         *)
(* The state is the singleton context s_ctx, the table of resources the    *)
(* collaborators have handed out (each one counts how often it has been    *)
(* destroyed), the playback controller's running state, and the position   *)
(* of the single control thread inside init / deinit.  History variables   *)
(* (op, arg, ret, pre, log, prev) record the call in progress or last      *)
(* completed, so that properties of a call are state predicates; events    *)
(* and up record the application event callbacks made by the latest step   *)
(* and the upstream event it handled; rpc, rcb and rcalls are the position *)
(* of the front-end context inside the record relay, the callback it has   *)
(* read, and the application record callback it has made.                  *)
(***************************************************************************)
EXTENDS Integers, Sequences, FiniteSets, TLC

VARIABLES ctx, res, pb_running, pc, op, arg, ret, pre, log, prev, inits,
          events, up, rpc, rcb, rcalls

vars == <<ctx, res, pb_running, pc, op, arg, ret, pre, log, prev, inits,
          events, up, rpc, rcb, rcalls>>

(***************************************************************************)
(* Bounds                                                                  *)
(***************************************************************************)
\* number of init calls that may enter the creation sequence
MaxInits == 2

(***************************************************************************)
(* Program constants                                                       *)
(***************************************************************************)
NULL == 0
DefaultVolume == 80
MaxVolume == 100

ESP_OK == "ESP_OK"
ESP_ERR_NO_MEM == "ESP_ERR_NO_MEM"
ESP_ERR_INVALID_ARG == "ESP_ERR_INVALID_ARG"
ESP_ERR_INVALID_STATE == "ESP_ERR_INVALID_STATE"
\* result of a void function, and of a call that has not returned yet
VOID == "void"
PENDING == "pending"

(***************************************************************************)
(* Configuration records                                                   *)
(***************************************************************************)
ZeroWakeup ==
    [enabled |-> FALSE, wake_word_name |-> "NULL", model_partition |-> "NULL",
     sensitivity |-> 0, wakeup_timeout_ms |-> 0, wakeup_end_delay_ms |-> 0]

ZeroConfig ==
    [hw_config |->
        [mic |-> [port |-> 0, bclk_gpio |-> 0, lrck_gpio |-> 0, din_gpio |-> 0,
                  sample_rate |-> 0, bits |-> 0],
         speaker |-> [port |-> 0, bclk_gpio |-> 0, lrck_gpio |-> 0, dout_gpio |-> 0,
                      sample_rate |-> 0, bits |-> 0],
         button |-> [gpio |-> 0, active_low |-> FALSE]],
     wakeup_config |-> ZeroWakeup,
     vad_config |-> [enabled |-> FALSE, vad_mode |-> 0, min_speech_ms |-> 0,
                     min_silence_ms |-> 0],
     afe_config |-> [aec_enabled |-> FALSE, ns_enabled |-> FALSE,
                     agc_enabled |-> FALSE, afe_mode |-> 0],
     event_callback |-> NULL,
     user_ctx |-> NULL]

\* audio_config_app_build: the device defaults with the given event sink
audio_config_app_build(event_cb, user_ctx) ==
    [hw_config |->
        [mic |-> [port |-> 1, bclk_gpio |-> 15, lrck_gpio |-> 2, din_gpio |-> 39,
                  sample_rate |-> 16000, bits |-> 32],
         speaker |-> [port |-> 0, bclk_gpio |-> 48, lrck_gpio |-> 38, dout_gpio |-> 47,
                      sample_rate |-> 16000, bits |-> 16],
         button |-> [gpio |-> 0, active_low |-> TRUE]],
     wakeup_config |->
        [enabled |-> FALSE, wake_word_name |-> "xiaoya", model_partition |-> "model",
         sensitivity |-> 2, wakeup_timeout_ms |-> 8000, wakeup_end_delay_ms |-> 1200],
     vad_config |-> [enabled |-> TRUE, vad_mode |-> 2, min_speech_ms |-> 200,
                     min_silence_ms |-> 400],
     afe_config |-> [aec_enabled |-> TRUE, ns_enabled |-> TRUE,
                     agc_enabled |-> TRUE, afe_mode |-> 1],
     event_callback |-> event_cb,
     user_ctx |-> user_ctx]

\* the configurations the application passes to init: built by the builder with
\* two different sinks, and one whose event callback is absent
Configs ==
    { audio_config_app_build(1, 1),
      audio_config_app_build(2, 2),
      audio_config_app_build(NULL, 1) }

\* a pointer argument: <<>> is the null pointer, <<c>> points to c
ConfigArgs == {<<>>} \cup { <<c>> : c \in Configs }

\* byte values passed to set_volume
VolumeInputs == {0, 150}

\* record sinks passed to set_record_callback: <<callback, context>>
RecordSinks == { <<NULL, NULL>>, <<1, 1>> }

(***************************************************************************)
(* The context s_ctx                                                       *)
(***************************************************************************)
ZeroCtx ==
    [config |-> ZeroConfig,
     i2s_hal |-> NULL, playback_ctrl |-> NULL, button_handler |-> NULL,
     afe_wrapper |-> NULL, reference_rb |-> NULL,
     initialized |-> FALSE, running |-> FALSE, recording |-> FALSE,
     volume |-> 0,
     record_callback |-> NULL, record_ctx |-> NULL]

(***************************************************************************)
(* Collaborators.  A resource is a record of the table res; its handle is  *)
(* its index, and NULL is no resource.  A collaborator call made by the    *)
(* orchestrator is logged as [fn, h]: the function and the handle it was   *)
(* given (for a create: the handle it returned).                           *)
(***************************************************************************)
Call(fn, h) == [fn |-> fn, h |-> h]

NewResource(kind) == [kind |-> kind, destroys |-> 0]

\* the handle the next create returns when it succeeds
NextHandle(r) == Len(r) + 1

Destroy(r, h) == [r EXCEPT ![h].destroys = @ + 1]

\* i2s_hal_create / ring_buffer_create / afe_wrapper_create /
\* button_handler_create, succeeding
i2s_hal_create(r) == Append(r, NewResource("i2s_hal"))
ring_buffer_create(r) == Append(r, NewResource("ring_buffer"))
afe_wrapper_create(r) == Append(r, NewResource("afe_wrapper"))
button_handler_create(r) == Append(r, NewResource("button_handler"))

\* playback_controller_create, succeeding: the controller creates its own
\* reference buffer, the resource right after it
playback_controller_create(r) ==
    Append(Append(r, NewResource("playback_controller")),
           NewResource("playback_reference_rb"))

playback_controller_get_reference_buffer(h) == h + 1

\* playback_controller_destroy releases the controller and the buffer it owns
playback_controller_destroy(r, h) ==
    Destroy(Destroy(r, h), playback_controller_get_reference_buffer(h))

DestroyFns ==
    {"i2s_hal_destroy", "ring_buffer_destroy", "playback_controller_destroy",
     "afe_wrapper_destroy", "button_handler_destroy"}

CreateFns ==
    {"i2s_hal_create", "ring_buffer_create", "playback_controller_create",
     "afe_wrapper_create", "button_handler_create"}

\* the effect of one logged call on the resource table
ApplyCall(r, c) ==
    IF c.fn = "playback_controller_destroy" THEN playback_controller_destroy(r, c.h)
    ELSE IF c.fn \in DestroyFns THEN Destroy(r, c.h)
    ELSE r

RECURSIVE ApplyCalls(_, _)
ApplyCalls(r, cs) ==
    IF cs = <<>> THEN r ELSE ApplyCalls(ApplyCall(r, Head(cs)), Tail(cs))

(***************************************************************************)
(* Initial state: the zero-initialised static context, nothing created.    *)
(***************************************************************************)
Init ==
    /\ ctx = ZeroCtx
    /\ res = <<>>
    /\ pb_running = FALSE
    /\ pc = "idle"
    /\ op = "none"
    /\ arg = <<>>
    /\ ret = VOID
    /\ pre = ZeroCtx
    /\ log = <<>>
    /\ prev = "other"
    /\ inits = 0
    /\ events = <<>>
    /\ up = <<>>
    /\ rpc = "idle"
    /\ rcb = NULL
    /\ rcalls = <<>>

\* a step of the control thread that calls no application event callback and
\* leaves the record relay alone
Silent ==
    /\ events' = <<>>
    /\ up' = <<>>
    /\ UNCHANGED <<rpc, rcb, rcalls>>

\* what the call that has just completed was, kept when the next begins: a
\* deinit of an initialized context, an init that failed in a creation step,
\* or any other call
Completed ==
    IF op = "deinit" /\ pre.initialized THEN "deinit"
    ELSE IF op = "init" /\ ret = ESP_ERR_NO_MEM THEN "init_failed"
    ELSE "other"

\* a control-plane call begins: the history variables are reset for it
Begin(name, a) ==
    /\ pc = "idle"
    /\ op' = name
    /\ arg' = a
    /\ pre' = ctx
    /\ prev' = Completed

(***************************************************************************)
(* audio_manager_init                                                      *)
(***************************************************************************)
\* mutant of InitCheck: the already-initialized fast path is missing
InitCheck_NoFastPath(c, a) ==
    IF a = <<>> \/ a[1].event_callback = NULL THEN ESP_ERR_INVALID_ARG
    ELSE PENDING

\* mutant of InitCheck: the event callback of the config is not checked
InitCheck_NoCallbackCheck(c, a) ==
    IF c.initialized THEN ESP_OK
    ELSE IF a = <<>> THEN ESP_ERR_INVALID_ARG
    ELSE PENDING

\* the entry checks of init: the early return value, or PENDING to go on
InitCheck(c, a) ==
    IF c.initialized THEN ESP_OK
    ELSE IF a = <<>> \/ a[1].event_callback = NULL THEN ESP_ERR_INVALID_ARG
    ELSE PENDING

\* mutant of InitSaveConfig: the default volume is not set
InitSaveConfig_KeepVolume(c, cfg) == [c EXCEPT !.config = cfg]

\* save the configuration and set the default volume
InitSaveConfig(c, cfg) == [c EXCEPT !.config = cfg, !.volume = DefaultVolume]

audio_manager_init ==
    \E a \in ConfigArgs :
        /\ Begin("init", a)
        /\ log' = <<>>
        /\ LET r == InitCheck(ctx, a) IN
           IF r = PENDING
           THEN /\ inits < MaxInits
                /\ inits' = inits + 1
                /\ ctx' = InitSaveConfig(ctx, a[1])
                /\ ret' = PENDING
                /\ pc' = "init_i2s_hal"
           ELSE /\ ret' = r
                /\ pc' = "idle"
                /\ UNCHANGED <<ctx, inits>>
        /\ Silent
        /\ UNCHANGED <<res, pb_running>>

\* a creation step of init fails: the handle is stored, the calls of the
\* failure branch are made, and init returns ESP_ERR_NO_MEM
InitFail(c, fn, calls) ==
    /\ ctx' = c
    /\ res' = ApplyCalls(res, calls)
    /\ log' = log \o <<Call(fn, NULL)>> \o calls
    /\ ret' = ESP_ERR_NO_MEM
    /\ pc' = "idle"
    /\ Silent
    /\ UNCHANGED <<pb_running, op, arg, pre, prev, inits>>

\* step 1: I2S HAL
init_i2s_hal ==
    /\ pc = "init_i2s_hal"
    /\ \E ok \in BOOLEAN :
        IF ok
        THEN /\ res' = i2s_hal_create(res)
             /\ ctx' = [ctx EXCEPT !.i2s_hal = NextHandle(res)]
             /\ log' = Append(log, Call("i2s_hal_create", NextHandle(res)))
             /\ pc' = "init_reference_rb"
             /\ Silent
             /\ UNCHANGED <<pb_running, op, arg, ret, pre, prev, inits>>
        ELSE InitFail([ctx EXCEPT !.i2s_hal = NULL], "i2s_hal_create", <<>>)

\* the calls init makes when ring_buffer_create fails
InitRollbackReferenceRb(c) == <<Call("i2s_hal_destroy", c.i2s_hal)>>

\* step 2: the reference ring buffer
init_reference_rb ==
    /\ pc = "init_reference_rb"
    /\ \E ok \in BOOLEAN :
        IF ok
        THEN /\ res' = ring_buffer_create(res)
             /\ ctx' = [ctx EXCEPT !.reference_rb = NextHandle(res)]
             /\ log' = Append(log, Call("ring_buffer_create", NextHandle(res)))
             /\ pc' = "init_playback_ctrl"
             /\ Silent
             /\ UNCHANGED <<pb_running, op, arg, ret, pre, prev, inits>>
        ELSE InitFail([ctx EXCEPT !.reference_rb = NULL], "ring_buffer_create",
                      InitRollbackReferenceRb(ctx))

\* the calls init makes when playback_controller_create fails
InitRollbackPlayback(c) ==
    <<Call("ring_buffer_destroy", c.reference_rb),
      Call("i2s_hal_destroy", c.i2s_hal)>>

\* step 3: the playback controller, then its reference buffer replaces the
\* handle of step 2
init_playback_ctrl ==
    /\ pc = "init_playback_ctrl"
    /\ \E ok \in BOOLEAN :
        IF ok
        THEN /\ res' = playback_controller_create(res)
             /\ ctx' = [ctx EXCEPT
                           !.playback_ctrl = NextHandle(res),
                           !.reference_rb =
                               playback_controller_get_reference_buffer(NextHandle(res))]
             /\ log' = log \o
                    <<Call("playback_controller_create", NextHandle(res)),
                      Call("playback_controller_get_reference_buffer", NextHandle(res))>>
             /\ pb_running' = FALSE
             /\ pc' = "init_afe_wrapper"
             /\ Silent
             /\ UNCHANGED <<op, arg, ret, pre, prev, inits>>
        ELSE InitFail([ctx EXCEPT !.playback_ctrl = NULL], "playback_controller_create",
                      InitRollbackPlayback(ctx))

\* the calls init makes when afe_wrapper_create fails
InitRollbackAfe(c) ==
    <<Call("playback_controller_destroy", c.playback_ctrl),
      Call("i2s_hal_destroy", c.i2s_hal)>>

\* step 4: the AFE wrapper
init_afe_wrapper ==
    /\ pc = "init_afe_wrapper"
    /\ \E ok \in BOOLEAN :
        IF ok
        THEN /\ res' = afe_wrapper_create(res)
             /\ ctx' = [ctx EXCEPT !.afe_wrapper = NextHandle(res)]
             /\ log' = Append(log, Call("afe_wrapper_create", NextHandle(res)))
             /\ pc' = "init_button_handler"
             /\ Silent
             /\ UNCHANGED <<pb_running, op, arg, ret, pre, prev, inits>>
        ELSE InitFail([ctx EXCEPT !.afe_wrapper = NULL], "afe_wrapper_create",
                      InitRollbackAfe(ctx))

\* the calls init makes when button_handler_create fails
InitRollbackButton(c) ==
    <<Call("afe_wrapper_destroy", c.afe_wrapper),
      Call("playback_controller_destroy", c.playback_ctrl),
      Call("i2s_hal_destroy", c.i2s_hal)>>

\* step 5: the button handler, which exists from here on
init_button_handler ==
    /\ pc = "init_button_handler"
    /\ \E ok \in BOOLEAN :
        IF ok
        THEN /\ res' = button_handler_create(res)
             /\ ctx' = [ctx EXCEPT !.button_handler = NextHandle(res)]
             /\ log' = Append(log, Call("button_handler_create", NextHandle(res)))
             /\ pc' = "init_set_initialized"
             /\ Silent
             /\ UNCHANGED <<pb_running, op, arg, ret, pre, prev, inits>>
        ELSE InitFail([ctx EXCEPT !.button_handler = NULL], "button_handler_create",
                      InitRollbackButton(ctx))

\* the end of init: the context is marked initialized and ESP_OK is returned
init_set_initialized ==
    /\ pc = "init_set_initialized"
    /\ ctx' = [ctx EXCEPT !.initialized = TRUE]
    /\ ret' = ESP_OK
    /\ pc' = "idle"
    /\ Silent
    /\ UNCHANGED <<res, pb_running, op, arg, pre, log, prev, inits>>

(***************************************************************************)
(* Listening, recording, playback, volume                                  *)
(***************************************************************************)
\* the context after audio_manager_stop
StopCtx(c) ==
    IF ~c.running THEN c
    ELSE [c EXCEPT !.running = FALSE, !.recording = FALSE]

\* a call that completes in one step, making no collaborator call
Return(name, a, c, r) ==
    /\ Begin(name, a)
    /\ ctx' = c
    /\ ret' = r
    /\ log' = <<>>
    /\ pc' = "idle"
    /\ Silent
    /\ UNCHANGED <<res, pb_running, inits>>

audio_manager_start ==
    IF ~ctx.initialized THEN Return("start", <<>>, ctx, ESP_ERR_INVALID_STATE)
    ELSE IF ctx.running THEN Return("start", <<>>, ctx, ESP_OK)
    ELSE Return("start", <<>>, [ctx EXCEPT !.running = TRUE], ESP_OK)

audio_manager_stop == Return("stop", <<>>, StopCtx(ctx), ESP_OK)

\* mutant of audio_manager_start_recording: the initialized check is missing
audio_manager_start_recording_NoCheck ==
    Return("start_recording", <<>>, [ctx EXCEPT !.recording = TRUE], ESP_OK)

audio_manager_start_recording ==
    IF ~ctx.initialized THEN Return("start_recording", <<>>, ctx, ESP_ERR_INVALID_STATE)
    ELSE Return("start_recording", <<>>, [ctx EXCEPT !.recording = TRUE], ESP_OK)

audio_manager_stop_recording ==
    IF ~ctx.recording THEN Return("stop_recording", <<>>, ctx, ESP_OK)
    ELSE Return("stop_recording", <<>>, [ctx EXCEPT !.recording = FALSE], ESP_OK)

\* playback_controller_start / playback_controller_stop: the controller's
\* running state after the call
playback_controller_start(running) == TRUE
playback_controller_stop(running) == FALSE

audio_manager_start_playback ==
    IF ~ctx.initialized THEN Return("start_playback", <<>>, ctx, ESP_ERR_INVALID_STATE)
    ELSE /\ Begin("start_playback", <<>>)
         /\ log' = <<Call("playback_controller_start", ctx.playback_ctrl)>>
         /\ pb_running' = playback_controller_start(pb_running)
         /\ ret' = ESP_OK
         /\ pc' = "idle"
         /\ Silent
         /\ UNCHANGED <<ctx, res, inits>>

audio_manager_stop_playback ==
    IF ~ctx.initialized THEN Return("stop_playback", <<>>, ctx, ESP_OK)
    ELSE /\ Begin("stop_playback", <<>>)
         /\ log' = <<Call("playback_controller_stop", ctx.playback_ctrl)>>
         /\ pb_running' = playback_controller_stop(pb_running)
         /\ ret' = ESP_OK
         /\ pc' = "idle"
         /\ Silent
         /\ UNCHANGED <<ctx, res, inits>>

\* mutant of ClampVolume: the value is stored as given
ClampVolume_NoClamp(v) == v

\* the volume set_volume stores for the byte v
ClampVolume(v) == IF v > MaxVolume THEN MaxVolume ELSE v

audio_manager_set_volume ==
    \E v \in VolumeInputs :
        Return("set_volume", <<v>>, [ctx EXCEPT !.volume = ClampVolume(v)], VOID)

audio_manager_get_volume(c) == c.volume
audio_manager_is_running(c) == c.running
audio_manager_is_recording(c) == c.recording

audio_manager_set_record_callback ==
    \E s \in RecordSinks :
        Return("set_record_callback", s,
               [ctx EXCEPT !.record_callback = s[1], !.record_ctx = s[2]], VOID)

(***************************************************************************)
(* audio_manager_deinit                                                    *)
(***************************************************************************)
\* deinit returns at once on a context that is not initialized
DeinitCheck(c) == c.initialized

\* entry of deinit: stop listening, stop playback
audio_manager_deinit ==
    IF ~DeinitCheck(ctx) THEN Return("deinit", <<>>, ctx, VOID)
    ELSE /\ Begin("deinit", <<>>)
         /\ ctx' = StopCtx(ctx)
         /\ log' = <<Call("playback_controller_stop", ctx.playback_ctrl)>>
         /\ pb_running' = playback_controller_stop(pb_running)
         /\ ret' = PENDING
         /\ pc' = "deinit_destroy"
         /\ Silent
         /\ UNCHANGED <<res, inits>>

\* mutant of DeinitDestroyCalls: the I2S HAL is destroyed before its users
DeinitDestroyCalls_I2sFirst(c) ==
    SelectSeq(<<Call("i2s_hal_destroy", c.i2s_hal),
                Call("button_handler_destroy", c.button_handler),
                Call("afe_wrapper_destroy", c.afe_wrapper),
                Call("playback_controller_destroy", c.playback_ctrl)>>,
              LAMBDA x : x.h # NULL)

\* the destroy calls of deinit, in its order, each for a handle that is set
DeinitDestroyCalls(c) ==
    SelectSeq(<<Call("button_handler_destroy", c.button_handler),
                Call("afe_wrapper_destroy", c.afe_wrapper),
                Call("playback_controller_destroy", c.playback_ctrl),
                Call("i2s_hal_destroy", c.i2s_hal)>>,
              LAMBDA x : x.h # NULL)

\* mutant of DeinitClear: the handles and the initialized flag are cleared,
\* the rest of the context is kept
DeinitClear_HandlesOnly(c) ==
    [c EXCEPT !.i2s_hal = NULL, !.playback_ctrl = NULL, !.button_handler = NULL,
              !.afe_wrapper = NULL, !.reference_rb = NULL, !.initialized = FALSE]

\* the context deinit leaves: memset(&s_ctx, 0, sizeof(s_ctx))
DeinitClear(c) == ZeroCtx

\* the context after the handle given to the destroy call d is set to NULL
DeinitClearHandle(c, d) ==
    CASE d.fn = "button_handler_destroy" -> [c EXCEPT !.button_handler = NULL]
      [] d.fn = "afe_wrapper_destroy" -> [c EXCEPT !.afe_wrapper = NULL]
      [] d.fn = "playback_controller_destroy" -> [c EXCEPT !.playback_ctrl = NULL]
      [] d.fn = "i2s_hal_destroy" -> [c EXCEPT !.i2s_hal = NULL]

\* one destroy of deinit: the first collaborator, in deinit's order, whose
\* handle is still set is destroyed and its handle is set to NULL
deinit_destroy ==
    /\ pc = "deinit_destroy"
    /\ DeinitDestroyCalls(ctx) # <<>>
    /\ LET d == Head(DeinitDestroyCalls(ctx)) IN
            /\ res' = ApplyCall(res, d)
            /\ log' = Append(log, d)
            /\ ctx' = DeinitClearHandle(ctx, d)
    /\ Silent
    /\ UNCHANGED <<pb_running, pc, op, arg, ret, pre, prev, inits>>

\* the end of deinit, no handle being set any more: the context is zeroed
deinit_clear ==
    /\ pc = "deinit_destroy"
    /\ DeinitDestroyCalls(ctx) = <<>>
    /\ ctx' = DeinitClear(ctx)
    /\ ret' = VOID
    /\ pc' = "idle"
    /\ Silent
    /\ UNCHANGED <<res, pb_running, op, arg, pre, log, prev, inits>>

(***************************************************************************)
(* Event translation.  An event of the application is a discriminant with  *)
(* the wake-up payload, zero where the handler leaves it unset.            *)
(***************************************************************************)
MgrEvent(type, index, db) ==
    [type |-> type, wake_word_index |-> index, volume_db |-> db]

\* the discriminant of a zero-initialised audio_mgr_event_t
MGR_EVENT_ZERO == "AUDIO_MGR_EVENT_0"

\* the upstream events: button press / release, and the front end's wake-up
\* (with index and volume in dB), VAD start and VAD end
ButtonEvents == { [type |-> "BUTTON_EVENT_PRESS"], [type |-> "BUTTON_EVENT_RELEASE"] }

AfeEvents ==
    { [type |-> "AFE_EVENT_WAKEUP_DETECTED", wake_word_index |-> 2, volume_db |-> -12],
      [type |-> "AFE_EVENT_VAD_START", wake_word_index |-> 0, volume_db |-> 0],
      [type |-> "AFE_EVENT_VAD_END", wake_word_index |-> 0, volume_db |-> 0] }

\* one call of an application event callback
Invocation(cb, e, uctx) == [cb |-> cb, event |-> e, user_ctx |-> uctx]

\* the event button_event_handler builds
ButtonTranslate(e) ==
    IF e.type = "BUTTON_EVENT_PRESS"
    THEN MgrEvent("AUDIO_MGR_EVENT_BUTTON_TRIGGER", 0, 0)
    ELSE IF e.type = "BUTTON_EVENT_RELEASE"
    THEN MgrEvent("AUDIO_MGR_EVENT_BUTTON_RELEASE", 0, 0)
    ELSE MgrEvent(MGR_EVENT_ZERO, 0, 0)

\* mutant of AfeTranslate: the wake-up payload is not copied
AfeTranslate_NoPayload(e) ==
    CASE e.type = "AFE_EVENT_WAKEUP_DETECTED" ->
            MgrEvent("AUDIO_MGR_EVENT_WAKEUP_DETECTED", 0, 0)
      [] e.type = "AFE_EVENT_VAD_START" -> MgrEvent("AUDIO_MGR_EVENT_VAD_START", 0, 0)
      [] e.type = "AFE_EVENT_VAD_END" -> MgrEvent("AUDIO_MGR_EVENT_VAD_END", 0, 0)
      [] OTHER -> MgrEvent(MGR_EVENT_ZERO, 0, 0)

\* the event afe_event_handler builds
AfeTranslate(e) ==
    CASE e.type = "AFE_EVENT_WAKEUP_DETECTED" ->
            MgrEvent("AUDIO_MGR_EVENT_WAKEUP_DETECTED", e.wake_word_index, e.volume_db)
      [] e.type = "AFE_EVENT_VAD_START" -> MgrEvent("AUDIO_MGR_EVENT_VAD_START", 0, 0)
      [] e.type = "AFE_EVENT_VAD_END" -> MgrEvent("AUDIO_MGR_EVENT_VAD_END", 0, 0)
      [] OTHER -> MgrEvent(MGR_EVENT_ZERO, 0, 0)

\* the callbacks made for an event: none when no event callback is stored,
\* else one, with the stored user context
Dispatch(c, e) ==
    IF c.config.event_callback = NULL THEN <<>>
    ELSE <<Invocation(c.config.event_callback, e, c.config.user_ctx)>>

\* an upstream event handled on its own execution context
Upstream(src, e) == <<[src |-> src, ev |-> e, at |-> ctx]>>

\* button_event_handler, called by a button handler that exists
button_event_handler ==
    \E e \in ButtonEvents :
        /\ \E h \in 1..Len(res) : res[h].kind = "button_handler" /\ res[h].destroys = 0
        /\ events' = Dispatch(ctx, ButtonTranslate(e))
        /\ up' = Upstream("button", e)
        /\ UNCHANGED <<ctx, res, pb_running, pc, op, arg, ret, pre, log, prev, inits,
                       rpc, rcb, rcalls>>

\* afe_event_handler, called by an AFE wrapper that exists
afe_event_handler ==
    \E e \in AfeEvents :
        /\ \E h \in 1..Len(res) : res[h].kind = "afe_wrapper" /\ res[h].destroys = 0
        /\ events' = Dispatch(ctx, AfeTranslate(e))
        /\ up' = Upstream("afe", e)
        /\ UNCHANGED <<ctx, res, pb_running, pc, op, arg, ret, pre, log, prev, inits,
                       rpc, rcb, rcalls>>

\* mutant of TriggerEvent: the wrong discriminant
TriggerEvent_Release == MgrEvent("AUDIO_MGR_EVENT_BUTTON_RELEASE", 0, 0)

\* the event trigger_conversation builds
TriggerEvent == MgrEvent("AUDIO_MGR_EVENT_BUTTON_TRIGGER", 0, 0)

\* mutant of audio_manager_trigger_conversation: the initialized check is missing
audio_manager_trigger_conversation_NoCheck ==
    /\ Begin("trigger_conversation", <<>>)
    /\ events' = Dispatch(ctx, TriggerEvent)
    /\ up' = <<>>
    /\ log' = <<>>
    /\ ret' = ESP_OK
    /\ pc' = "idle"
    /\ UNCHANGED <<ctx, res, pb_running, inits, rpc, rcb, rcalls>>

audio_manager_trigger_conversation ==
    IF ~ctx.initialized
    THEN Return("trigger_conversation", <<>>, ctx, ESP_ERR_INVALID_STATE)
    ELSE /\ Begin("trigger_conversation", <<>>)
         /\ events' = Dispatch(ctx, TriggerEvent)
         /\ up' = <<>>
         /\ log' = <<>>
         /\ ret' = ESP_OK
         /\ pc' = "idle"
         /\ UNCHANGED <<ctx, res, pb_running, inits, rpc, rcb, rcalls>>

(***************************************************************************)
(* Playback buffer                                                         *)
(***************************************************************************)
\* playback_controller_clear: its result
playback_controller_clear == ESP_OK

audio_manager_clear_playback_buffer ==
    IF ~ctx.initialized
    THEN Return("clear_playback_buffer", <<>>, ctx, ESP_ERR_INVALID_STATE)
    ELSE /\ Begin("clear_playback_buffer", <<>>)
         /\ log' = <<Call("playback_controller_clear", ctx.playback_ctrl)>>
         /\ ret' = playback_controller_clear
         /\ pc' = "idle"
         /\ Silent
         /\ UNCHANGED <<ctx, res, pb_running, inits>>

\* the arguments of play_audio: a sample pointer (<<>> is the null pointer)
\* and a sample count
Samples == <<100, -100>>
PcmArgs == { <<>>, <<Samples>> }
SampleCounts == {0, 2}

\* the results a collaborator operation can give
ESP_FAIL == "ESP_FAIL"
CollaboratorResults == {ESP_OK, ESP_FAIL}

\* playback_controller_write, as logged: what it was given and what it returned
WriteCall(h, pcm, n, r) ==
    [fn |-> "playback_controller_write", h |-> h, pcm |-> pcm, n |-> n, result |-> r]

\* mutant of PlayAudioCheck: a zero sample count is let through
PlayAudioCheck_NoCount(c, p, n) == ~c.initialized \/ p = <<>>

\* the parameter check of play_audio: TRUE when the call is rejected
PlayAudioCheck(c, p, n) == ~c.initialized \/ p = <<>> \/ n = 0

audio_manager_play_audio ==
    \E p \in PcmArgs, n \in SampleCounts :
        IF PlayAudioCheck(ctx, p, n)
        THEN Return("play_audio", <<p, n>>, ctx, ESP_ERR_INVALID_ARG)
        ELSE \E r \in CollaboratorResults :
                /\ Begin("play_audio", <<p, n>>)
                /\ log' = <<WriteCall(ctx.playback_ctrl, p[1], n, r)>>
                /\ ret' = r
                /\ pc' = "idle"
                /\ Silent
                /\ UNCHANGED <<ctx, res, pb_running, inits>>

\* results are recorded in ret as strings: a size_t in decimal, a bool by name
NoFreeSpace == "0"
FreeSpaceResults == {"0", "1024"}
BoolResult(b) == IF b THEN "true" ELSE "false"

audio_manager_get_playback_free_space ==
    IF ~ctx.initialized \/ ctx.playback_ctrl = NULL
    THEN Return("get_playback_free_space", <<>>, ctx, NoFreeSpace)
    ELSE \E n \in FreeSpaceResults :
            /\ Begin("get_playback_free_space", <<>>)
            /\ log' = <<Call("playback_controller_get_free_space", ctx.playback_ctrl)>>
            /\ ret' = n
            /\ pc' = "idle"
            /\ Silent
            /\ UNCHANGED <<ctx, res, pb_running, inits>>

\* playback_controller_is_running: the running state of a controller that
\* exists; for a null handle or a destroyed controller the read is undefined
\* and either answer can come back
playback_controller_is_running(r, h, running) ==
    IF h # NULL /\ r[h].destroys = 0 THEN {running} ELSE BOOLEAN

\* is_playing hands the stored handle to the controller without any check
audio_manager_is_playing ==
    \E b \in playback_controller_is_running(res, ctx.playback_ctrl, pb_running) :
        /\ Begin("is_playing", <<>>)
        /\ log' = <<Call("playback_controller_is_running", ctx.playback_ctrl)>>
        /\ ret' = BoolResult(b)
        /\ pc' = "idle"
        /\ Silent
        /\ UNCHANGED <<ctx, res, pb_running, inits>>

(***************************************************************************)
(* Wake-word configuration                                                 *)
(***************************************************************************)
\* a wake-word configuration the application switches to
WakeupInputs ==
    { [enabled |-> TRUE, wake_word_name |-> "hilexin", model_partition |-> "model2",
       sensitivity |-> 3, wakeup_timeout_ms |-> 5000, wakeup_end_delay_ms |-> 800] }

\* the pointer argument of update_wakeup_config
WakeupArgs == {<<>>} \cup { <<w>> : w \in WakeupInputs }

\* the pointer argument of get_wakeup_config: null, or the caller's record
WakeupOutArgs == { <<>>, <<ZeroWakeup>> }

\* the afe_wakeup_config_t built from a wake-word configuration
AfeWakeup(w) ==
    [enabled |-> w.enabled, wake_word_name |-> w.wake_word_name,
     model_partition |-> w.model_partition, sensitivity |-> w.sensitivity]

\* afe_wrapper_update_wakeup_config, as logged
UpdateCall(h, w, r) ==
    [fn |-> "afe_wrapper_update_wakeup_config", h |-> h, cfg |-> w, result |-> r]

\* mutant of UpdateWakeupStore: the sensitivity is not stored
UpdateWakeupStore_NoSensitivity(c, w) ==
    [c EXCEPT !.config.wakeup_config =
        [w EXCEPT !.sensitivity = c.config.wakeup_config.sensitivity]]

\* the context after update_wakeup_config has copied the configuration
UpdateWakeupStore(c, w) == [c EXCEPT !.config.wakeup_config = w]

audio_manager_update_wakeup_config ==
    \E a \in WakeupArgs :
        IF ~ctx.initialized \/ a = <<>>
        THEN Return("update_wakeup_config", a, ctx, ESP_ERR_INVALID_ARG)
        ELSE \E r \in CollaboratorResults :
                /\ Begin("update_wakeup_config", a)
                /\ ctx' = UpdateWakeupStore(ctx, a[1])
                /\ log' = <<UpdateCall(ctx.afe_wrapper, AfeWakeup(a[1]), r)>>
                /\ ret' = r
                /\ pc' = "idle"
                /\ Silent
                /\ UNCHANGED <<res, pb_running, inits>>

\* get_wakeup_config: arg is the caller's record as the call leaves it
audio_manager_get_wakeup_config ==
    \E a \in WakeupOutArgs :
        IF ~ctx.initialized \/ a = <<>>
        THEN Return("get_wakeup_config", a, ctx, ESP_ERR_INVALID_ARG)
        ELSE Return("get_wakeup_config", <<ctx.config.wakeup_config>>, ctx, ESP_OK)

(***************************************************************************)
(* Record relay.  set_record_callback makes two stores, the callback and   *)
(* then its context; afe_record_handler, on the front-end context, tests   *)
(* the callback and then calls it with the context.  Nothing orders the    *)
(* two contexts, so the steps below interleave.                            *)
(***************************************************************************)
\* first store of set_record_callback: s_ctx.record_callback
set_record_callback_store_callback ==
    \E s \in RecordSinks :
        /\ Begin("set_record_callback", s)
        /\ ctx' = [ctx EXCEPT !.record_callback = s[1]]
        /\ ret' = PENDING
        /\ log' = <<>>
        /\ pc' = "set_record_ctx"
        /\ Silent
        /\ UNCHANGED <<res, pb_running, inits>>

\* second store of set_record_callback: s_ctx.record_ctx
set_record_callback_store_ctx ==
    /\ pc = "set_record_ctx"
    /\ ctx' = [ctx EXCEPT !.record_ctx = arg[2]]
    /\ ret' = VOID
    /\ pc' = "idle"
    /\ Silent
    /\ UNCHANGED <<res, pb_running, op, arg, pre, log, prev, inits>>

\* afe_record_handler, the test: called by an AFE wrapper that exists
afe_record_handler_test ==
    /\ rpc = "idle"
    /\ \E h \in 1..Len(res) : res[h].kind = "afe_wrapper" /\ res[h].destroys = 0
    /\ rcb' = ctx.record_callback
    /\ rcalls' = <<>>
    /\ rpc' = IF ctx.record_callback # NULL THEN "call" ELSE "idle"
    /\ UNCHANGED <<ctx, res, pb_running, pc, op, arg, ret, pre, log, prev, inits,
                   events, up>>

\* afe_record_handler, the call: the callback is the value tested or the
\* field read again (the build decides), the context is read now
afe_record_handler_call ==
    /\ rpc = "call"
    /\ \E cb \in {rcb, ctx.record_callback} :
            rcalls' = <<[cb |-> cb, ctx |-> ctx.record_ctx]>>
    /\ rpc' = "idle"
    /\ UNCHANGED <<ctx, res, pb_running, pc, op, arg, ret, pre, log, prev, inits,
                   events, up, rcb>>

(***************************************************************************)
(* Specification                                                           *)
(***************************************************************************)
Next ==
    \/ audio_manager_init
    \/ init_i2s_hal
    \/ init_reference_rb
    \/ init_playback_ctrl
    \/ init_afe_wrapper
    \/ init_button_handler
    \/ init_set_initialized
    \/ audio_manager_deinit
    \/ deinit_destroy
    \/ deinit_clear
    \/ audio_manager_start
    \/ audio_manager_stop
    \/ audio_manager_start_recording
    \/ audio_manager_stop_recording
    \/ audio_manager_start_playback
    \/ audio_manager_stop_playback
    \/ audio_manager_set_volume
    \/ audio_manager_set_record_callback
    \/ audio_manager_trigger_conversation
    \/ audio_manager_clear_playback_buffer

\* the control plane: every call is made by the single control thread
Spec == Init /\ [][Next]_vars

\* the control plane with the button and front-end contexts, which deliver
\* their events at any moment their collaborator exists
NextEvents ==
    \/ Next
    \/ button_event_handler
    \/ afe_event_handler

SpecEvents == Init /\ [][NextEvents]_vars

\* the control plane with the playback data path
NextPlayback ==
    \/ Next
    \/ audio_manager_play_audio
    \/ audio_manager_get_playback_free_space
    \/ audio_manager_is_playing

SpecPlayback == Init /\ [][NextPlayback]_vars

\* the control plane with the wake-word configuration calls
NextWakeup ==
    \/ Next
    \/ audio_manager_update_wakeup_config
    \/ audio_manager_get_wakeup_config

SpecWakeup == Init /\ [][NextWakeup]_vars

\* the lifecycle with the record relay: the control thread registers record
\* sinks while the front-end context delivers PCM
NextRecord ==
    \/ audio_manager_init
    \/ init_i2s_hal
    \/ init_reference_rb
    \/ init_playback_ctrl
    \/ init_afe_wrapper
    \/ init_button_handler
    \/ init_set_initialized
    \/ audio_manager_deinit
    \/ deinit_destroy
    \/ deinit_clear
    \/ set_record_callback_store_callback
    \/ set_record_callback_store_ctx
    \/ afe_record_handler_test
    \/ afe_record_handler_call

SpecRecord == Init /\ [][NextRecord]_vars

\* the shape of the state
TypeOK ==
    /\ pc \in {"idle", "init_i2s_hal", "init_reference_rb", "init_playback_ctrl",
               "init_afe_wrapper", "init_button_handler", "init_set_initialized",
               "deinit_destroy",
               "set_record_ctx"}
    /\ ctx.initialized \in BOOLEAN
    /\ ctx.volume \in 0..255
    /\ inits \in 0..MaxInits
    /\ \A h \in {ctx.i2s_hal, ctx.playback_ctrl, ctx.button_handler,
                 ctx.afe_wrapper, ctx.reference_rb} : h \in 0..Len(res)

(***************************************************************************)
(* Vocabulary of the properties                                            *)
(***************************************************************************)
Returned(name) == pc = "idle" /\ op = name

Reverse(s) == [i \in 1..Len(s) |-> s[Len(s) + 1 - i]]
HandlesOf(s) == [i \in 1..Len(s) |-> s[i].h]
FnsOf(s) == [i \in 1..Len(s) |-> s[i].fn]

\* the creations of a call that succeeded, the one that failed, its destroys
CreatedIn(l) == SelectSeq(l, LAMBDA c : c.fn \in CreateFns /\ c.h # NULL)
FailedCreateIn(l) == \E i \in 1..Len(l) : l[i].fn \in CreateFns /\ l[i].h = NULL
DestroyedIn(l) == SelectSeq(l, LAMBDA c : c.fn \in DestroyFns)

ArgInvalid(a) == a = <<>> \/ a[1].event_callback = NULL

Collaborators == {"i2s_hal", "playback_controller", "afe_wrapper", "button_handler"}

\* the resources of a kind that have been created and not destroyed
Live(kind) == { h \in 1..Len(res) : res[h].kind = kind /\ res[h].destroys = 0 }

\* the whole creation sequence of init
FullCreation ==
    <<"i2s_hal_create", "ring_buffer_create", "playback_controller_create",
      "playback_controller_get_reference_buffer", "afe_wrapper_create",
      "button_handler_create">>

(***************************************************************************)
(* C1: when init fails at creation step k, everything created in steps     *)
(* 1..k-1 of that call has been destroyed before init returns, in strict   *)
(* reverse order of creation, and init returns ESP_ERR_NO_MEM.             *)
(* Violated: the ring buffer of step 2 is not destroyed when step 4 or     *)
(* step 5 fails.                                                           *)
(***************************************************************************)
C1_RollbackReverseOrder ==
    (Returned("init") /\ FailedCreateIn(log)) =>
        /\ ret = ESP_ERR_NO_MEM
        /\ HandlesOf(DestroyedIn(log)) = Reverse(HandlesOf(CreatedIn(log)))

(***************************************************************************)
(* C2: after an init that failed in a creation step, the context is the    *)
(* context that existed before the call.                                   *)
(* Violated: the configuration, the volume and the handles stay stored.    *)
(***************************************************************************)
C2_FailedInitRestoresContext ==
    (Returned("init") /\ ret = ESP_ERR_NO_MEM) => ctx = pre

(***************************************************************************)
(* C3: over any sequence of init and deinit calls no resource is destroyed *)
(* twice; whenever the context is uninitialized after a call has returned, *)
(* no created resource remains undestroyed; and an init issued after a     *)
(* failed init succeeds when all its creations succeed.                    *)
(* Violated: the ring buffer of step 2 is never destroyed once step 3 has  *)
(* succeeded.                                                              *)
(***************************************************************************)
C3_NoDoubleFreeNoLeak ==
    /\ \A h \in 1..Len(res) : res[h].destroys <= 1
    /\ (pc = "idle" /\ ~ctx.initialized) =>
            \A h \in 1..Len(res) : res[h].destroys = 1
    /\ (Returned("init") /\ prev = "init_failed" /\ ~ArgInvalid(arg)
            /\ ~FailedCreateIn(log)) =>
            (ret = ESP_OK /\ ctx.initialized)

(***************************************************************************)
(* C4: init on an initialized context returns ESP_OK at once, creates no   *)
(* collaborator (one live instance of each remains) and leaves the whole   *)
(* context unchanged, whatever the argument.                               *)
(***************************************************************************)
C4_InitIdempotent ==
    (op = "init" /\ pre.initialized) =>
        /\ pc = "idle"
        /\ ret = ESP_OK
        /\ ctx = pre
        /\ log = <<>>
        /\ \A k \in Collaborators : Cardinality(Live(k)) = 1

\* a second init with another valid configuration, while listening
C4_Witness ==
    /\ Returned("init")
    /\ pre.initialized
    /\ ~ArgInvalid(arg)
    /\ arg[1] # ctx.config
    /\ ctx.running
    /\ ret = ESP_OK

(***************************************************************************)
(* C5, as claimed: init with an absent config, or with a config whose      *)
(* event callback is absent, returns ESP_ERR_INVALID_ARG, changes nothing  *)
(* and leaves initialized false.                                           *)
(* Violated on an initialized context, where init returns ESP_OK first.    *)
(***************************************************************************)
C5_InvalidArgAlways ==
    (Returned("init") /\ ArgInvalid(arg)) =>
        /\ ret = ESP_ERR_INVALID_ARG
        /\ ctx = pre
        /\ ~ctx.initialized

(***************************************************************************)
(* C5, amended: on a context that is not initialized, init with an absent  *)
(* config, or with a config whose event callback is absent, returns        *)
(* ESP_ERR_INVALID_ARG at once, calls no collaborator, changes nothing and *)
(* leaves initialized false.                                               *)
(***************************************************************************)
C5_InvalidArgWhenUninitialized ==
    (op = "init" /\ ~pre.initialized /\ ArgInvalid(arg)) =>
        /\ pc = "idle"
        /\ ret = ESP_ERR_INVALID_ARG
        /\ ctx = pre
        /\ log = <<>>
        /\ ~ctx.initialized

\* init with a config that has no event callback, on an uninitialized context
\* that a set_volume has already written
C5_Witness ==
    /\ Returned("init")
    /\ ~pre.initialized
    /\ arg # <<>>
    /\ arg[1].event_callback = NULL
    /\ pre.volume # 0
    /\ ret = ESP_ERR_INVALID_ARG

(***************************************************************************)
(* C6: stop leaves running and recording both false, from every state.     *)
(* Violated: with recording true and running false, stop returns early and *)
(* recording stays true.                                                   *)
(***************************************************************************)
C6_StopClearsBothFlags ==
    Returned("stop") => (~ctx.running /\ ~ctx.recording)

(***************************************************************************)
(* C7: in deinit of an initialized context, running and recording are      *)
(* false and playback is stopped before the first collaborator is          *)
(* destroyed.                                                              *)
(* Violated: recording stays true when running was false (see C6).         *)
(***************************************************************************)
C7_DeinitQuiescesBeforeDestroy ==
    pc = "deinit_destroy" => (~ctx.running /\ ~ctx.recording /\ ~pb_running)

(***************************************************************************)
(* C8: deinit of an initialized context destroys the button handler, the   *)
(* AFE wrapper, the playback controller and the I2S HAL, in this order,    *)
(* each exactly once, and makes no ring_buffer_destroy call; deinit of an  *)
(* uninitialized context calls nothing and changes nothing.                *)
(***************************************************************************)
C8_DeinitOrder ==
    Returned("deinit") =>
        IF pre.initialized
        THEN /\ DestroyedIn(log) =
                    <<Call("button_handler_destroy", pre.button_handler),
                      Call("afe_wrapper_destroy", pre.afe_wrapper),
                      Call("playback_controller_destroy", pre.playback_ctrl),
                      Call("i2s_hal_destroy", pre.i2s_hal)>>
             /\ \A h \in {pre.button_handler, pre.afe_wrapper,
                          pre.playback_ctrl, pre.i2s_hal} :
                    h # NULL /\ res[h].destroys = 1
             /\ \A k \in Collaborators : Live(k) = {}
        ELSE log = <<>> /\ ctx = pre

\* a deinit that destroyed four collaborators, called while recording
C8_Witness ==
    /\ Returned("deinit")
    /\ pre.initialized
    /\ pre.recording
    /\ Len(DestroyedIn(log)) = 4

(***************************************************************************)
(* C9, as claimed: after deinit returns the context is the pristine one,   *)
(* is_running and is_recording are false, and a following init runs the    *)
(* whole creation sequence and gives the state of a first init.            *)
(* Violated by a deinit of an uninitialized context, which changes         *)
(* nothing: a volume or record callback set before it stays.               *)
(***************************************************************************)
C9_DeinitAlwaysPristine ==
    Returned("deinit") =>
        /\ ctx = ZeroCtx
        /\ ~audio_manager_is_running(ctx)
        /\ ~audio_manager_is_recording(ctx)

(***************************************************************************)
(* C9, amended: after a deinit of an initialized context returns, the      *)
(* context is the pristine one, is_running and is_recording are false, and *)
(* an init that follows it with a valid configuration and no creation      *)
(* failure runs the whole creation sequence and gives the state a first    *)
(* init gives: the configuration, volume 80, the five handles, initialized *)
(* and nothing else set.                                                   *)
(***************************************************************************)
C9_DeinitThenInit ==
    /\ (Returned("deinit") /\ pre.initialized) =>
            /\ ctx = ZeroCtx
            /\ ~audio_manager_is_running(ctx)
            /\ ~audio_manager_is_recording(ctx)
            /\ audio_manager_get_volume(ctx) = 0
    /\ (Returned("init") /\ prev = "deinit" /\ ~ArgInvalid(arg)
            /\ ~FailedCreateIn(log)) =>
            /\ ret = ESP_OK
            /\ FnsOf(log) = FullCreation
            /\ \A i \in 1..Len(log) : log[i].h # NULL /\ res[log[i].h].destroys = 0
            /\ ctx = [ZeroCtx EXCEPT
                        !.config = arg[1],
                        !.volume = DefaultVolume,
                        !.i2s_hal = log[1].h,
                        !.playback_ctrl = log[3].h,
                        !.reference_rb = playback_controller_get_reference_buffer(log[3].h),
                        !.afe_wrapper = log[5].h,
                        !.button_handler = log[6].h,
                        !.initialized = TRUE]

\* an init that succeeded right after a deinit of an initialized context
C9_Witness ==
    /\ Returned("init")
    /\ prev = "deinit"
    /\ ret = ESP_OK
    /\ ctx.initialized
    /\ Len(res) > Len(log)

(***************************************************************************)
(* C10: between calls, initialized = FALSE implies that the four handles   *)
(* are null and that running, recording and volume are zero.               *)
(* Violated: set_volume stores the volume on an uninitialized context, and *)
(* a failed init leaves its volume and its handles in the context.         *)
(***************************************************************************)
C10_UninitializedIsZero ==
    (pc = "idle" /\ ~ctx.initialized) =>
        /\ ctx.i2s_hal = NULL
        /\ ctx.playback_ctrl = NULL
        /\ ctx.afe_wrapper = NULL
        /\ ctx.button_handler = NULL
        /\ ~ctx.running
        /\ ~ctx.recording
        /\ ctx.volume = 0

(***************************************************************************)
(* C11: in every state reached by control-plane calls, recording = TRUE    *)
(* implies initialized = TRUE.                                             *)
(***************************************************************************)
C11_RecordingNeedsInitialized == ctx.recording => ctx.initialized

\* recording switched on, without listening, by start_recording
C11_Witness ==
    /\ Returned("start_recording")
    /\ ret = ESP_OK
    /\ ctx.recording
    /\ ~ctx.running

(***************************************************************************)
(* C12, as claimed: after an init call that returns ESP_OK, is_running is  *)
(* false, is_recording is false and get_volume is 80.                      *)
(* Violated by an init on an initialized context, which returns ESP_OK and *)
(* leaves running, recording and volume as they are.                       *)
(***************************************************************************)
C12_AnyInitDefaults ==
    (Returned("init") /\ ret = ESP_OK) =>
        /\ ~audio_manager_is_running(ctx)
        /\ ~audio_manager_is_recording(ctx)
        /\ audio_manager_get_volume(ctx) = 80

(***************************************************************************)
(* C12, amended: after an init call on a context that was not initialized  *)
(* returns ESP_OK, is_running is false, is_recording is false and          *)
(* get_volume is 80.                                                       *)
(***************************************************************************)
C12_FirstInitDefaults ==
    (Returned("init") /\ ret = ESP_OK /\ ~pre.initialized) =>
        /\ ~audio_manager_is_running(ctx)
        /\ ~audio_manager_is_recording(ctx)
        /\ audio_manager_get_volume(ctx) = 80

\* a successful init on a context whose volume a set_volume had set to 100
C12_Witness ==
    /\ Returned("init")
    /\ ret = ESP_OK
    /\ ~pre.initialized
    /\ pre.volume = 100
    /\ ctx.initialized

(***************************************************************************)
(* C13: while initialized is false, each of start, trigger_conversation,   *)
(* start_recording, start_playback and clear_playback_buffer returns       *)
(* ESP_ERR_INVALID_STATE, leaves the context unchanged, calls no           *)
(* collaborator and calls no application event callback.                   *)
(***************************************************************************)
NeedInitialized ==
    {"start", "trigger_conversation", "start_recording", "start_playback",
     "clear_playback_buffer"}

C13_InvalidStateWhenUninitialized ==
    (pc = "idle" /\ op \in NeedInitialized /\ ~pre.initialized) =>
        /\ ret = ESP_ERR_INVALID_STATE
        /\ ctx = pre
        /\ log = <<>>
        /\ events = <<>>

\* trigger_conversation after a failed init, which has left an event callback
\* in the stored configuration
C13_Witness ==
    /\ Returned("trigger_conversation")
    /\ ~pre.initialized
    /\ prev = "init_failed"
    /\ pre.config.event_callback # NULL
    /\ ret = ESP_ERR_INVALID_STATE

(***************************************************************************)
(* C14: trigger_conversation on an initialized context calls the           *)
(* application event callback exactly once, before it returns, with the    *)
(* BUTTON_TRIGGER discriminant and the registered user context, whatever   *)
(* running and recording are, and changes no field of the context.         *)
(***************************************************************************)
C14_TriggerDispatchesOnce ==
    (op = "trigger_conversation" /\ pre.initialized) =>
        /\ pc = "idle"
        /\ ret = ESP_OK
        /\ pre.config.event_callback # NULL
        /\ events = <<[cb |-> pre.config.event_callback,
                       event |-> [type |-> "AUDIO_MGR_EVENT_BUTTON_TRIGGER",
                                  wake_word_index |-> 0, volume_db |-> 0],
                       user_ctx |-> pre.config.user_ctx]>>
        /\ ctx = pre
        /\ log = <<>>

\* a trigger while recording and not listening, registered with the second sink
C14_Witness ==
    /\ Returned("trigger_conversation")
    /\ pre.initialized
    /\ ctx.recording
    /\ ~ctx.running
    /\ Len(events) = 1
    /\ events[1].cb = 2
    /\ events[1].user_ctx = 2

(***************************************************************************)
(* C15: a handled upstream event makes exactly one application event       *)
(* callback when a callback is stored and none otherwise: button press ->  *)
(* BUTTON_TRIGGER, button release -> BUTTON_RELEASE, wake-up ->            *)
(* WAKEUP_DETECTED with wake_word_index and volume_db unchanged, VAD start *)
(* -> VAD_START, VAD end -> VAD_END; the handler changes no context field. *)
(***************************************************************************)
ExpectedEvent(e) ==
    CASE e.type = "BUTTON_EVENT_PRESS" ->
            [type |-> "AUDIO_MGR_EVENT_BUTTON_TRIGGER", wake_word_index |-> 0,
             volume_db |-> 0]
      [] e.type = "BUTTON_EVENT_RELEASE" ->
            [type |-> "AUDIO_MGR_EVENT_BUTTON_RELEASE", wake_word_index |-> 0,
             volume_db |-> 0]
      [] e.type = "AFE_EVENT_WAKEUP_DETECTED" ->
            [type |-> "AUDIO_MGR_EVENT_WAKEUP_DETECTED",
             wake_word_index |-> e.wake_word_index, volume_db |-> e.volume_db]
      [] e.type = "AFE_EVENT_VAD_START" ->
            [type |-> "AUDIO_MGR_EVENT_VAD_START", wake_word_index |-> 0,
             volume_db |-> 0]
      [] e.type = "AFE_EVENT_VAD_END" ->
            [type |-> "AUDIO_MGR_EVENT_VAD_END", wake_word_index |-> 0,
             volume_db |-> 0]

C15_EventTranslation ==
    up # <<>> =>
        /\ ctx = up[1].at
        /\ events =
            IF up[1].at.config.event_callback = NULL THEN <<>>
            ELSE <<[cb |-> up[1].at.config.event_callback,
                    event |-> ExpectedEvent(up[1].ev),
                    user_ctx |-> up[1].at.config.user_ctx]>>

\* the wake-up event with index 2 and -12 dB, relayed while listening
C15_Witness ==
    /\ up # <<>>
    /\ up[1].src = "afe"
    /\ up[1].ev.type = "AFE_EVENT_WAKEUP_DETECTED"
    /\ ctx.running
    /\ Len(events) = 1
    /\ events[1].event.wake_word_index = 2
    /\ events[1].event.volume_db = -12

(***************************************************************************)
(* C16: the stored volume is in [0,100] in every reachable state;          *)
(* set_volume(v) stores min(v,100) for every byte v, and leaves the rest   *)
(* of the context alone.                                                   *)
(***************************************************************************)
MaxByte == 255

C16_VolumeInRange ==
    /\ ctx.volume \in 0..MaxVolume
    /\ \A v \in 0..MaxByte :
            ClampVolume(v) = IF v < MaxVolume THEN v ELSE MaxVolume
    /\ Returned("set_volume") =>
            /\ ctx = [pre EXCEPT !.volume = ClampVolume(arg[1])]
            /\ audio_manager_get_volume(ctx) = ClampVolume(arg[1])

\* set_volume(150) on an initialized context, after which get_volume is 100
C16_Witness ==
    /\ Returned("set_volume")
    /\ arg = <<150>>
    /\ pre.initialized
    /\ audio_manager_get_volume(ctx) = 100

(***************************************************************************)
(* C17: play_audio returns invalid-argument and writes nothing when the    *)
(* context is uninitialized, the sample pointer is null or the count is    *)
(* zero; otherwise it makes exactly one playback_controller_write with the *)
(* given samples and count on the stored controller and returns its result.*)
(***************************************************************************)
C17_PlayAudio ==
    Returned("play_audio") =>
        /\ ctx = pre
        /\ IF ~pre.initialized \/ arg[1] = <<>> \/ arg[2] = 0
           THEN ret = ESP_ERR_INVALID_ARG /\ log = <<>>
           ELSE /\ Len(log) = 1
                /\ log[1].fn = "playback_controller_write"
                /\ log[1].h = pre.playback_ctrl
                /\ log[1].pcm = arg[1][1]
                /\ log[1].n = arg[2]
                /\ ret = log[1].result

\* a write of two samples that the controller refuses: the refusal is returned
C17_Witness ==
    /\ Returned("play_audio")
    /\ pre.initialized
    /\ arg = <<<<Samples>>, 2>>
    /\ Len(log) = 1
    /\ ret = ESP_FAIL

(***************************************************************************)
(* C18: on an initialized context update_wakeup_config(cfg) stores cfg's   *)
(* wake-word name, model partition, enable flag and sensitivity and pushes *)
(* the same four values to the AFE wrapper, and get_wakeup_config returns  *)
(* what is stored; uninitialized or with a null pointer both return        *)
(* invalid-argument and the stored configuration is unchanged.             *)
(***************************************************************************)
C18_WakeupConfigRoundTrip ==
    /\ Returned("update_wakeup_config") =>
            IF ~pre.initialized \/ arg = <<>>
            THEN ret = ESP_ERR_INVALID_ARG /\ ctx = pre /\ log = <<>>
            ELSE /\ AfeWakeup(ctx.config.wakeup_config) = AfeWakeup(arg[1])
                 /\ Len(log) = 1
                 /\ log[1].fn = "afe_wrapper_update_wakeup_config"
                 /\ log[1].h = pre.afe_wrapper
                 /\ log[1].cfg = AfeWakeup(arg[1])
                 /\ ret = log[1].result
    /\ Returned("get_wakeup_config") =>
            /\ ctx = pre
            /\ log = <<>>
            /\ IF ~pre.initialized \/ arg = <<>>
               THEN ret = ESP_ERR_INVALID_ARG
               ELSE ret = ESP_OK /\ arg = <<pre.config.wakeup_config>>

\* get_wakeup_config returning the configuration an earlier update stored,
\* which differs from the one init was given
C18_Witness ==
    /\ Returned("get_wakeup_config")
    /\ ret = ESP_OK
    /\ arg[1] \in WakeupInputs
    /\ \A c \in Configs : AfeWakeup(arg[1]) # AfeWakeup(c.wakeup_config)

(***************************************************************************)
(* C19: no collaborator operation is ever given a null handle or a handle  *)
(* that was destroyed before the call.                                     *)
(***************************************************************************)
\* how often handle h is destroyed by the logged calls from position i on
DestroysFrom(i, h) ==
    Cardinality({ j \in i..Len(log) : log[j].fn \in DestroyFns /\ log[j].h = h })

\* the handle of the i-th logged call existed when the call was made
ValidAt(i) ==
    /\ log[i].h # NULL
    /\ res[log[i].h].destroys - DestroysFrom(i, log[i].h) = 0

C19_HandlesValid ==
    \A i \in 1..Len(log) : log[i].fn \notin CreateFns => ValidAt(i)

(***************************************************************************)
(* C20: every call the record relay makes is to a non-null callback with   *)
(* the context registered together with it.                                *)
(***************************************************************************)
C20_RecordPairing ==
    rcalls # <<>> =>
        /\ rcalls[1].cb # NULL
        /\ <<rcalls[1].cb, rcalls[1].ctx>> \in RecordSinks

(***************************************************************************)
(* C21: the application's event callback is invoked only while initialized *)
(* is true: no event reaches it during an init that has not yet set        *)
(* initialized, after a failed init, or after deinit has returned.         *)
(* events holds the invocation just made; the context is the one it was    *)
(* made in, since every control step clears events.                        *)
(***************************************************************************)
C21_EventsOnlyWhenInitialized ==
    events # <<>> => ctx.initialized

====
